---- MODULE Spec2Model ----
(***************************************************************************)
(* A model of the LDAP client of src/ldap-client.go: one LDAPClient value, *)
(* the transport connections it has dialed, and the directory it talks to. *)
(* Every public method is one action; the directory server and the         *)
(* transport are the environment, which may fail one request per call.     *)
(***************************************************************************)
EXTENDS Integers, Sequences, FiniteSets, TLC

VARIABLES
    cfg,    \* the exported configuration fields of the LDAPClient
    Conn,   \* lc.Conn: NoConn (nil) or the index in conns of the held connection
    conns,  \* every transport connection this client has dialed, in dial order
    dir,    \* the directory's entries, in the order a search returns them
    last    \* the most recent call: its arguments, what it sent, what it returned

vars == <<cfg, Conn, conns, dir, last>>

----------------------------------------------------------------------------
\* Bounds of the model.

\* Connections one client may dial in a run.
MaxConns == 2

----------------------------------------------------------------------------
\* Values.

NoConn == 0

\* A nil error.
Nil == "nil"

\* A DN is the tuple of the pieces fmt.Sprintf joins; the empty DN is "".
EmptyDN == <<>>

\* The identity of a connection nobody has bound on.
Anonymous == EmptyDN

Base == "dc=example,dc=com"

\* The account the directory knows as the service (read only / admin) user.
ServiceDN == <<"uid", "readonlyuser", "ou", "People", Base>>

ServicePassword == "readonlypassword"

Usernames == {"alice", "bob"}

Passwords == {"secret", "wrong"}

\* fmt.Sprintf("cn=%s,ou=%s,%s", name, ou, lc.Base)
CnDN(name, ou) == <<"cn", name, "ou", ou, Base>>

\* fmt.Sprintf("ou=%s,%s", ou, lc.Base)
OuDN(ou) == <<"ou", ou, Base>>

\* fmt.Sprintf(lc.UserFilter, username) with UserFilter "(uid=%s)",
\* fmt.Sprintf(lc.GroupFilter, username) with GroupFilter "(memberUid=%s)":
\* an equality filter on one attribute.
UserFilter(username) == [attr |-> "uid", val |-> username]

GroupFilter(username) == [attr |-> "memberUid", val |-> username]

Attr(name, values) == [Name |-> name, Values |-> values]

Config(ssl, skip, dn, pw) ==
    [UseSSL |-> ssl, SkipTLS |-> skip, BindDN |-> dn, BindPassword |-> pw,
     Attributes |-> <<"uid", "mail", "sn">>]

\* The configurations a client is constructed with. UseSSL and SkipTLS are
\* read by Connect alone and BindDN and BindPassword by the binds alone, so
\* each way to connect (StartTLS, TLS, plain) and each kind of service
\* credentials (accepted, refused, none, a DN without password) appears once.
Configs ==
    {Config(FALSE, FALSE, ServiceDN, ServicePassword),
     Config(TRUE, FALSE, ServiceDN, "badpassword"),
     Config(FALSE, TRUE, EmptyDN, ""),
     Config(TRUE, TRUE, ServiceDN, "")}

\* The directories a run starts from.
AliceEntry ==
    [DN |-> CnDN("alice", "people"),
     Attributes |-> <<Attr("uid", <<"alice">>),
                      Attr("mail", <<"m1", "m2">>),
                      Attr("userPassword", <<"secret">>)>>]

StaffEntry ==
    [DN |-> CnDN("staff", "groups"),
     Attributes |-> <<Attr("cn", <<"staff">>),
                      Attr("memberUid", <<"alice">>)>>]

InitialDirs == {<<AliceEntry, StaffEntry>>}

----------------------------------------------------------------------------
\* The directory server (gopkg.in/ldap.v2 and the server behind it), as the
\* client's code uses it.

RECURSIVE SelectSeq2(_, _)
\* The members of seq s whose index is in keep, in order.
SelectSeq2(s, keep) ==
    IF s = <<>> THEN <<>>
    ELSE LET n == Len(s)
             rest == SelectSeq2(SubSeq(s, 1, n - 1), keep)
         IN  IF n \in keep THEN Append(rest, s[n]) ELSE rest

SeqToSet(s) == {s[i] : i \in 1..Len(s)}

HasEntry(d, dn) == \E i \in 1..Len(d) : d[i].DN = dn

EntryIndex(d, dn) == CHOOSE i \in 1..Len(d) : d[i].DN = dn

\* Whether the server accepts a simple bind of dn with pw.
BindValid(d, dn, pw) ==
    /\ pw # ""
    /\ \/ dn = ServiceDN /\ pw = ServicePassword
       \/ \E i \in 1..Len(d) :
            /\ d[i].DN = dn
            /\ \E j \in 1..Len(d[i].Attributes) :
                 /\ d[i].Attributes[j].Name = "userPassword"
                 /\ pw \in SeqToSet(d[i].Attributes[j].Values)

Matches(entry, filter) ==
    \E j \in 1..Len(entry.Attributes) :
        /\ entry.Attributes[j].Name = filter.attr
        /\ filter.val \in SeqToSet(entry.Attributes[j].Values)

\* The attributes of an entry a search returns for the requested list: the
\* entry's attributes named in it, in the entry's order; all of them when the
\* list is empty. "dn" names no attribute.
Returned(entry, attributes) ==
    IF attributes = <<>> THEN entry.Attributes
    ELSE SelectSeq2(entry.Attributes,
                    {j \in 1..Len(entry.Attributes) :
                        entry.Attributes[j].Name \in SeqToSet(attributes)})

\* sr.Entries of a successful search.
SearchEntries(d, filter, attributes) ==
    LET hit == SelectSeq2(d, {i \in 1..Len(d) : Matches(d[i], filter)})
    IN  [i \in 1..Len(hit) |->
            [DN |-> hit[i].DN, Attributes |-> Returned(hit[i], attributes)]]

\* GetAttributeValue gone wrong: the last value of the attribute, not the first.
GetAttributeValueLast(entry, attr) ==
    LET js == {j \in 1..Len(entry.Attributes) : entry.Attributes[j].Name = attr}
    IN  IF js = {} THEN ""
        ELSE LET j == CHOOSE k \in js : \A m \in js : k <= m
                 vs == entry.Attributes[j].Values
             IN  IF Len(vs) = 0 THEN "" ELSE vs[Len(vs)]

\* entry.GetAttributeValue(attr): the first value of the first attribute so
\* named, "" when the entry has none or it has no value.
GetAttributeValue(entry, attr) ==
    LET js == {j \in 1..Len(entry.Attributes) : entry.Attributes[j].Name = attr}
    IN  IF js = {} THEN ""
        ELSE LET j == CHOOSE k \in js : \A m \in js : k <= m
             IN  IF Len(entry.Attributes[j].Values) = 0 THEN ""
                 ELSE entry.Attributes[j].Values[1]

\* ReplaceAttribute gone wrong: the values are added to those the attribute
\* holds (a modify of Add, not of Replace).
ReplaceAttributeAdds(d, i, attribute, values) ==
    LET as == d[i].Attributes
        js == {j \in 1..Len(as) : as[j].Name = attribute}
        new == IF js = {} THEN Append(as, Attr(attribute, values))
               ELSE [j \in 1..Len(as) |->
                        IF j \in js THEN Attr(attribute, as[j].Values \o values)
                        ELSE as[j]]
    IN  [d EXCEPT ![i].Attributes = new]

\* The directory after a modify that replaces attribute of the entry at
\* index i by values: no values delete it, a missing attribute is added.
ReplaceAttribute(d, i, attribute, values) ==
    LET as == d[i].Attributes
        js == {j \in 1..Len(as) : as[j].Name = attribute}
        new == IF values = <<>>
               THEN SelectSeq2(as, (1..Len(as)) \ js)
               ELSE IF js = {} THEN Append(as, Attr(attribute, values))
               ELSE [j \in 1..Len(as) |->
                        IF j \in js THEN Attr(attribute, values) ELSE as[j]]
    IN  [d EXCEPT ![i].Attributes = new]

----------------------------------------------------------------------------
\* The steps of a call. A session s is the state a call threads through its
\* steps: the handle, the connections, the directory, the requests the call
\* has sent so far and the error of the step that failed.

Req(kind, dn, pw, ok) == [kind |-> kind, dn |-> dn, pw |-> pw, ok |-> ok]

Session(c, cs, d) ==
    [Conn |-> c, conns |-> cs, dir |-> d, reqs |-> <<>>, err |-> Nil]

Sent(s, kind, dn, pw, ok, err) ==
    [s EXCEPT !.reqs = Append(@, Req(kind, dn, pw, ok)),
              !.err = IF ok THEN Nil ELSE err]

\* A closed connection: it has no identity and carries nothing.
Gone == [open |-> FALSE, tls |-> FALSE, bound |-> Anonymous]

\* A connection as ldap.Dial / ldap.DialTLS returns it.
Dialed(tls) == [open |-> TRUE, tls |-> tls, bound |-> Anonymous]

\* StartTLS gone wrong: lc.Conn = l is done before the upgrade, so that a
\* failed upgrade leaves the connection in the handle.
StartTLSKeeps(d, l, fault) ==
    IF fault = "tls_refused" THEN
        [Sent(d, "StartTLS", EmptyDN, "", FALSE, "starttls error") EXCEPT !.Conn = l]
    ELSE IF fault = "tls_handshake" THEN
        [Sent([d EXCEPT !.conns[l] = Gone],
              "StartTLS", EmptyDN, "", FALSE, "starttls error") EXCEPT !.Conn = l]
    ELSE
        [Sent([d EXCEPT !.conns[l].tls = TRUE], "StartTLS", EmptyDN, "", TRUE, Nil)
            EXCEPT !.Conn = l]

\* l.StartTLS(&tls.Config{...}) on the dialed connection l of session d, and
\* what Connect does with its error: return it, or go on to lc.Conn = l.
StartTLS(d, l, fault) ==
    IF fault = "tls_refused" THEN
        \* the server answers the StartTLS request with an error: the
        \* library returns it and leaves the connection open
        Sent(d, "StartTLS", EmptyDN, "", FALSE, "starttls error")
    ELSE IF fault = "tls_handshake" THEN
        \* the TLS handshake fails: the library closes the connection
        \* before it returns the error
        Sent([d EXCEPT !.conns[l] = Gone],
             "StartTLS", EmptyDN, "", FALSE, "starttls error")
    ELSE
        [Sent([d EXCEPT !.conns[l].tls = TRUE], "StartTLS", EmptyDN, "", TRUE, Nil)
            EXCEPT !.Conn = l]

\* The body of lc.Connect().
lcConnect(s, fault) ==
    IF s.Conn # NoConn THEN s
    ELSE IF ~cfg.UseSSL THEN
        IF fault = "dial" THEN Sent(s, "Dial", EmptyDN, "", FALSE, "dial error")
        ELSE
            LET l == Len(s.conns) + 1
                d == Sent([s EXCEPT !.conns = Append(@, Dialed(FALSE))],
                          "Dial", EmptyDN, "", TRUE, Nil)
            IN  IF ~cfg.SkipTLS THEN StartTLS(d, l, fault)
                ELSE [d EXCEPT !.Conn = l]
    ELSE
        IF fault = "dial" THEN Sent(s, "DialTLS", EmptyDN, "", FALSE, "dial error")
        ELSE [Sent([s EXCEPT !.conns = Append(@, Dialed(TRUE))],
                   "DialTLS", EmptyDN, "", TRUE, Nil)
                EXCEPT !.Conn = Len(s.conns) + 1]

\* lc.Conn.Bind(dn, pw): a failed bind leaves the connection anonymous.
Bind(s, dn, pw, faulty) ==
    LET ok == ~faulty /\ BindValid(s.dir, dn, pw)
    IN  Sent([s EXCEPT !.conns[s.Conn].bound = IF ok THEN dn ELSE Anonymous],
             "Bind", dn, pw, ok, "bind error")

\* if lc.BindDN != "" && lc.BindPassword != "" { lc.Conn.Bind(...) }
ServiceBind(s, faulty) ==
    IF cfg.BindDN # EmptyDN /\ cfg.BindPassword # ""
    THEN Bind(s, cfg.BindDN, cfg.BindPassword, faulty)
    ELSE s

\* lc.Conn.Search(searchRequest)
Search(s, faulty) ==
    Sent(s, "Search", EmptyDN, "", ~faulty, "search error")

\* lc.Conn.Add(addRequest)
Add(s, dn, attributes, faulty) ==
    LET ok == ~faulty /\ ~HasEntry(s.dir, dn)
    IN  Sent([s EXCEPT !.dir = IF ok
                                THEN Append(@, [DN |-> dn, Attributes |-> attributes])
                                ELSE @],
             "Add", dn, "", ok, "write error")

\* lc.Conn.Modify(modifyRequest) with one ReplaceAttributes member
Modify(s, dn, attribute, values, faulty) ==
    LET ok == ~faulty /\ HasEntry(s.dir, dn)
    IN  Sent([s EXCEPT !.dir = IF ok
                                THEN ReplaceAttribute(@, EntryIndex(@, dn), attribute, values)
                                ELSE @],
             "Modify", dn, "", ok, "write error")

----------------------------------------------------------------------------
\* What the methods return.

\* A nil map[string]string and a nil []string; len of either is 0.
NilMap == [nil |-> TRUE, m |-> [a \in {} |-> ""]]

NilSlice == [nil |-> TRUE, s |-> <<>>]

MapOf(m) == [nil |-> FALSE, m |-> m]

SliceOf(s) == [nil |-> FALSE, s |-> s]

\* len(m) of a map
MapLen(m) == IF m.nil THEN 0 ELSE Cardinality(DOMAIN m.m)

\* (bool, map[string]string, error) of Authenticate
AuthReturn(s, ok, user, err) == [s |-> s, ok |-> ok, user |-> user, err |-> err]

\* user[attr] = sr.Entries[0].GetAttributeValue(attr) for attr in lc.Attributes
UserMap(entry) ==
    MapOf([a \in SeqToSet(cfg.Attributes) |-> GetAttributeValue(entry, a)])

\* MatchError gone wrong: the check for more than one entry is missing.
MatchErrorFirstOfMany(entries) ==
    IF Len(entries) < 1 THEN "User does not exist" ELSE Nil

\* The error of the checks on len(sr.Entries), Nil when exactly one matched.
MatchError(entries) ==
    IF Len(entries) < 1 THEN "User does not exist"
    ELSE IF Len(entries) > 1 THEN "Too many entries returned"
    ELSE Nil

\* lc.Authenticate(username, password) from session s0.
AuthenticateBody(s0, username, password, fault) ==
    LET s1 == lcConnect(s0, fault)
    IN  IF s1.err # Nil THEN AuthReturn(s1, FALSE, NilMap, s1.err)
        ELSE
        LET s2 == ServiceBind(s1, fault = "bind")
        IN  IF s2.err # Nil THEN AuthReturn(s2, FALSE, NilMap, s2.err)
            ELSE
            LET s3 == Search(s2, fault = "search")
                entries == SearchEntries(s3.dir, UserFilter(username),
                                          Append(cfg.Attributes, "dn"))
            IN  IF s3.err # Nil THEN AuthReturn(s3, FALSE, NilMap, s3.err)
                ELSE IF MatchError(entries) # Nil
                THEN AuthReturn(s3, FALSE, NilMap, MatchError(entries))
                ELSE
                LET userDN == entries[1].DN
                    user == UserMap(entries[1])
                    s4 == Bind(s3, userDN, password, fault = "userbind")
                IN  IF s4.err # Nil THEN AuthReturn(s4, FALSE, user, s4.err)
                    ELSE
                    LET s5 == ServiceBind(s4, fault = "rebind")
                    IN  IF s5.err # Nil THEN AuthReturn(s5, TRUE, user, s5.err)
                        ELSE AuthReturn(s5, TRUE, user, Nil)

RECURSIVE FlattenFirst(_)
\* Flatten gone wrong: the first value of each attribute only.
FlattenFirst(attributes) ==
    IF attributes = <<>> THEN <<>>
    ELSE (IF Head(attributes).Values = <<>> THEN <<>>
          ELSE <<Head(attributes).Values[1]>>)
         \o FlattenFirst(Tail(attributes))

RECURSIVE Flatten(_)
\* for _, value := range attr.Values { result = append(result, value) }
\* over a sequence of attributes
Flatten(attributes) ==
    IF attributes = <<>> THEN <<>>
    ELSE Head(attributes).Values \o Flatten(Tail(attributes))

RECURSIVE FlattenEntries(_)
\* for _, entry := range sr.Entries { for _, attr := range entry.Attributes ...
FlattenEntries(entries) ==
    IF entries = <<>> THEN <<>>
    ELSE Flatten(Head(entries).Attributes) \o FlattenEntries(Tail(entries))

\* ([]string, error) of Filter
FilterReturn(s, result, err) == [s |-> s, result |-> result, err |-> err]

\* FilterBody gone wrong: it binds with the service credentials first, as the
\* other methods do.
FilterBodyBinds(s0, filter, attributes, fault) ==
    LET s0c == lcConnect(s0, fault)
        s1 == IF s0c.err # Nil THEN s0c ELSE ServiceBind(s0c, FALSE)
    IN  IF s1.err # Nil THEN FilterReturn(s1, NilSlice, s1.err)
        ELSE
        LET s2 == Search(s1, fault = "search")
            entries == SearchEntries(s2.dir, filter, attributes)
        IN  IF s2.err # Nil THEN FilterReturn(s2, NilSlice, s2.err)
            ELSE FilterReturn(s2, SliceOf(FlattenEntries(entries)), Nil)

\* lc.Filter(filter, attributes) from session s0.
FilterBody(s0, filter, attributes, fault) ==
    LET s1 == lcConnect(s0, fault)
    IN  IF s1.err # Nil THEN FilterReturn(s1, NilSlice, s1.err)
        ELSE
        LET s2 == Search(s1, fault = "search")
            entries == SearchEntries(s2.dir, filter, attributes)
        IN  IF s2.err # Nil THEN FilterReturn(s2, NilSlice, s2.err)
            ELSE FilterReturn(s2, SliceOf(FlattenEntries(entries)), Nil)

\* lc.AddUser(username, password, ou) from session s0; the session's err is
\* the error returned.
AddUserBody(s0, username, password, ou, fault) ==
    LET s1 == lcConnect(s0, fault)
    IN  IF s1.err # Nil THEN s1
        ELSE
        LET s2 == ServiceBind(s1, fault = "bind")
        IN  IF s2.err # Nil THEN s2
            ELSE Add(s2, CnDN(username, ou),
                     <<Attr("objectClass", <<"inetOrgPerson">>),
                       Attr("userPassword", <<password>>),
                       Attr("sn", <<username>>),
                       Attr("uid", <<username>>)>>,
                     fault = "write")

\* strconv.Itoa
Itoa(n) == ToString(n)

\* "/home/" + account.Username
HomeDirectory(username) ==
    CASE username = "alice" -> "/home/alice"
      [] username = "bob" -> "/home/bob"
      [] OTHER -> "/home/"

\* lc.AddUserAccount(account) from session s0.
AddUserAccountBody(s0, account, fault) ==
    LET s1 == lcConnect(s0, fault)
    IN  IF s1.err # Nil THEN s1
        ELSE
        LET s2 == ServiceBind(s1, fault = "bind")
        IN  IF s2.err # Nil THEN s2
            ELSE Add(s2, CnDN(account.Username, account.OU),
                     <<Attr("objectClass", <<"inetOrgPerson", "posixAccount">>),
                       Attr("uidNumber", <<Itoa(account.UID)>>),
                       Attr("gidNumber", <<Itoa(account.GID)>>),
                       Attr("userPassword", <<account.Password>>),
                       Attr("homeDirectory", <<HomeDirectory(account.Username)>>),
                       Attr("loginShell", <<"/bin/bash">>),
                       Attr("sn", <<account.Username>>),
                       Attr("uid", <<account.Username>>)>>,
                     fault = "write")

\* ChangeAttributeBody gone wrong: the error of the service bind is dropped
\* and the modify is sent all the same.
ChangeAttributeBodyGoesOn(s0, DN, attribute, values, fault) ==
    LET s1 == lcConnect(s0, fault)
    IN  IF s1.err # Nil THEN s1
        ELSE Modify(ServiceBind(s1, fault = "bind"), DN, attribute, values,
                    fault = "write")

\* lc.ChangeAttribute(DN, attribute, values) from session s0.
ChangeAttributeBody(s0, DN, attribute, values, fault) ==
    LET s1 == lcConnect(s0, fault)
    IN  IF s1.err # Nil THEN s1
        ELSE
        LET s2 == ServiceBind(s1, fault = "bind")
        IN  IF s2.err # Nil THEN s2
            ELSE Modify(s2, DN, attribute, values, fault = "write")

----------------------------------------------------------------------------
\* The calls a program makes, one at a time (the client has no locking and
\* is used by one caller).

\* The values of attribute on the entry dn, as a read returns them.
ValuesOf(d, dn, attribute) ==
    IF HasEntry(d, dn)
    THEN Flatten(Returned(d[EntryIndex(d, dn)], <<attribute>>))
    ELSE <<>>

\* A call record with no arguments and no results: held is whether lc.Conn
\* was set when the call began, again whether the call before it was of the
\* same method, before what the attribute a Change call names held.
Call(op) ==
    [op |-> op, held |-> Conn # NoConn, again |-> last.op = op, before |-> <<>>,
     username |-> "", password |-> "", dn |-> EmptyDN,
     attribute |-> "", values |-> <<>>, filter |-> [attr |-> "", val |-> ""],
     attributes |-> <<>>, reqs |-> <<>>, err |-> Nil, ok |-> FALSE,
     user |-> NilMap, result |-> NilSlice]

\* The model dials a new connection only while fewer than MaxConns exist.
CanDial(fault) ==
    /\ Conn # NoConn \/ fault = "dial" \/ Len(conns) < MaxConns
    \* a fault is injected at a step the configuration lets the call take
    /\ fault = "dial" => Conn = NoConn
    /\ fault \in {"tls_refused", "tls_handshake"} =>
            Conn = NoConn /\ ~cfg.UseSSL /\ ~cfg.SkipTLS
    /\ fault \in {"bind", "rebind"} =>
            cfg.BindDN # EmptyDN /\ cfg.BindPassword # ""

Start == Session(Conn, conns, dir)

\* The state a call leaves behind.
Leaves(s) ==
    /\ Conn' = s.Conn
    /\ conns' = s.conns
    /\ dir' = s.dir
    /\ UNCHANGED cfg

\* The one failure the environment injects in a call, here of the steps of
\* Connect: the dial, the server's answer to StartTLS, the TLS handshake.
ConnectFaults == {"none", "dial", "tls_refused", "tls_handshake"}

Connect ==
    \E fault \in ConnectFaults :
        /\ CanDial(fault)
        /\ LET s == lcConnect(Start, fault)
           IN  /\ Leaves(s)
               /\ last' = [Call("Connect") EXCEPT !.reqs = s.reqs, !.err = s.err]

\* lc.Conn.Close(); lc.Conn = nil
Closed(cs, c) == [cs EXCEPT ![c] = Gone]

\* Close gone wrong: the connection is closed and the handle is kept.
CloseKeepsHandle ==
    /\ IF Conn # NoConn
       THEN conns' = Closed(conns, Conn)
       ELSE UNCHANGED conns
    /\ last' = Call("Close")
    /\ UNCHANGED <<cfg, Conn, dir>>

Close ==
    /\ IF Conn # NoConn
       THEN /\ conns' = Closed(conns, Conn)
            /\ Conn' = NoConn
       ELSE UNCHANGED <<Conn, conns>>
    /\ last' = Call("Close")
    /\ UNCHANGED <<cfg, dir>>

Authenticate ==
    \E username \in Usernames, password \in Passwords,
       fault \in ConnectFaults \cup {"bind", "search", "userbind", "rebind"} :
        /\ CanDial(fault)
        /\ LET r == AuthenticateBody(Start, username, password, fault)
           IN  /\ Leaves(r.s)
               /\ last' = [Call("Authenticate") EXCEPT
                              !.username = username, !.password = password,
                              !.reqs = r.s.reqs, !.err = r.err, !.ok = r.ok,
                              !.user = r.user]

\* The filters and attribute lists a caller searches with.
Searches ==
    {[filter |-> UserFilter("alice"), attributes |-> <<"mail", "uid">>],
     [filter |-> UserFilter("alice"), attributes |-> <<>>],
     [filter |-> GroupFilter("bob"), attributes |-> <<"cn", "memberUid">>]}

FilterCall(op, username, filter, attributes, fault) ==
    /\ CanDial(fault)
    /\ LET r == FilterBody(Start, filter, attributes, fault)
       IN  /\ Leaves(r.s)
           /\ last' = [Call(op) EXCEPT
                          !.username = username, !.filter = filter, !.attributes = attributes,
                          !.reqs = r.s.reqs, !.err = r.err,
                          !.result = r.result]

Filter ==
    \E q \in Searches, fault \in ConnectFaults \cup {"search"} :
        FilterCall("Filter", "", q.filter, q.attributes, fault)

\* return lc.Filter(fmt.Sprintf(lc.GroupFilter, username), []string{"cn"})
GetGroupsOfUser ==
    \E username \in Usernames, fault \in ConnectFaults \cup {"search"} :
        FilterCall("GetGroupsOfUser", username, GroupFilter(username), <<"cn">>,
                   fault)

\* The failures of a call that writes: of Connect, the service bind, the write.
WriteFaults == ConnectFaults \cup {"bind", "write"}

AddUser ==
    \E username \in {"alice"}, password \in {"secret"},
       ou \in {"people", "admins"}, fault \in WriteFaults :
        /\ CanDial(fault)
        /\ LET s == AddUserBody(Start, username, password, ou, fault)
           IN  /\ Leaves(s)
               /\ last' = [Call("AddUser") EXCEPT
                              !.username = username, !.password = password,
                              !.dn = CnDN(username, ou),
                              !.reqs = s.reqs, !.err = s.err]

Accounts ==
    {[Username |-> "alice", Password |-> "secret", OU |-> "admins",
      UID |-> 1000, GID |-> 100]}

AddUserAccount ==
    \E account \in Accounts, fault \in WriteFaults :
        /\ CanDial(fault)
        /\ LET s == AddUserAccountBody(Start, account, fault)
           IN  /\ Leaves(s)
               /\ last' = [Call("AddUserAccount") EXCEPT
                              !.username = account.Username,
                              !.password = account.Password,
                              !.dn = CnDN(account.Username, account.OU),
                              !.reqs = s.reqs, !.err = s.err]

ChangeAttributeCall(op, DN, attribute, values, fault) ==
    /\ CanDial(fault)
    /\ LET s == ChangeAttributeBody(Start, DN, attribute, values, fault)
       IN  /\ Leaves(s)
           /\ last' = [Call(op) EXCEPT
                          !.dn = DN, !.attribute = attribute, !.values = values,
                          !.before = ValuesOf(dir, DN, attribute),
                          !.reqs = s.reqs, !.err = s.err]

ChangeAttribute ==
    \E DN \in {CnDN("alice", "people"), CnDN("bob", "admins")},
       values \in {<<"a", "b">>, <<"c">>}, fault \in WriteFaults :
        ChangeAttributeCall("ChangeAttribute", DN, "mail", values, fault)

ChangeMembers ==
    \E members \in {<<"alice">>}, fault \in WriteFaults :
        ChangeAttributeCall("ChangeMembers", CnDN("staff", "groups"),
                            "memberUid", members, fault)

ChangeDescription ==
    \E description \in {"the people"}, fault \in WriteFaults :
        ChangeAttributeCall("ChangeDescription", OuDN("people"),
                            "description", <<description>>, fault)

ChangePassword ==
    \E password \in Passwords, fault \in WriteFaults :
        ChangeAttributeCall("ChangePassword", CnDN("alice", "people"),
                            "userPassword", <<password>>, fault)

Init ==
    /\ cfg \in Configs
    /\ Conn = NoConn
    /\ conns = <<>>
    /\ dir \in InitialDirs
    /\ last = [op |-> "new", held |-> FALSE, again |-> FALSE, before |-> <<>>,
               username |-> "", password |-> "", dn |-> EmptyDN,
               attribute |-> "", values |-> <<>>,
               filter |-> [attr |-> "", val |-> ""], attributes |-> <<>>,
               reqs |-> <<>>, err |-> Nil, ok |-> FALSE,
               user |-> NilMap, result |-> NilSlice]

Next ==
    \/ Connect
    \/ Close
    \/ Authenticate
    \/ Filter
    \/ GetGroupsOfUser
    \/ AddUser
    \/ AddUserAccount
    \/ ChangeAttribute
    \/ ChangeMembers
    \/ ChangeDescription
    \/ ChangePassword

Spec == Init /\ [][Next]_vars

----------------------------------------------------------------------------
\* What the claims speak of.

Configured == cfg.BindDN # EmptyDN /\ cfg.BindPassword # ""

\* The indexes of the requests of kind in the last call.
ReqsOf(kind) == {i \in 1..Len(last.reqs) : last.reqs[i].kind = kind}

\* The bind as the matched entry: the one Authenticate sends after its search.
UserBinds ==
    {i \in ReqsOf("Bind") : i > 1 /\ last.reqs[i - 1].kind = "Search"}

\* The entries of the directory the user filter matches for the last call's
\* username (Authenticate changes no entry).
UserMatches == {i \in 1..Len(dir) : Matches(dir[i], UserFilter(last.username))}

Searched == \E i \in ReqsOf("Search") : last.reqs[i].ok

\* C1: after an Authenticate that bound as the matched entry, with service
\* credentials configured, the held connection is bound as BindDN.
C1_ServiceBoundAfterAuthenticate ==
    (last.op = "Authenticate" /\ UserBinds # {} /\ Configured) =>
        /\ Conn # NoConn
        /\ conns[Conn].bound = cfg.BindDN

\* The values the entry holds for an attribute name, "" when it has none:
\* stated from the directory, not from the search result.
FirstValue(entry, a) ==
    IF \E j \in 1..Len(entry.Attributes) :
            entry.Attributes[j].Name = a /\ entry.Attributes[j].Values # <<>>
    THEN LET j == CHOOSE k \in 1..Len(entry.Attributes) :
                    /\ entry.Attributes[k].Name = a
                    /\ \A m \in 1..(k - 1) : entry.Attributes[m].Name # a
         IN  entry.Attributes[j].Values[1]
    ELSE ""

Populated(user, entry) ==
    /\ ~user.nil
    /\ DOMAIN user.m = SeqToSet(cfg.Attributes)
    /\ \A a \in DOMAIN user.m : user.m[a] = FirstValue(entry, a)

\* C2: when the search of Authenticate matches exactly one entry, a bind as
\* that entry's DN with the supplied password is sent; if it succeeds the call
\* returns true, the entry's value for every configured attribute and no error
\* but that of a failed service rebind; if it fails the call returns false, the
\* same map and the bind's error.
C2_OneMatch ==
    (last.op = "Authenticate" /\ Searched /\ Cardinality(UserMatches) = 1) =>
        LET entry == dir[CHOOSE i \in UserMatches : TRUE]
        IN  /\ Cardinality(UserBinds) = 1
            /\ \A i \in UserBinds :
                /\ last.reqs[i].dn = entry.DN
                /\ last.reqs[i].pw = last.password
                /\ Populated(last.user, entry)
                /\ last.reqs[i].ok =>
                    /\ last.ok
                    /\ \/ last.err = Nil
                       \/ /\ last.err = "bind error"
                          /\ i + 1 = Len(last.reqs)
                          /\ last.reqs[i + 1].kind = "Bind"
                          /\ last.reqs[i + 1].dn = cfg.BindDN
                          /\ ~last.reqs[i + 1].ok
                /\ ~last.reqs[i].ok =>
                    /\ ~last.ok
                    /\ last.err = "bind error"
                    /\ i = Len(last.reqs)

\* C2's case: the one matching entry, the right password, the map returned.
C2_Witness ==
    /\ last.op = "Authenticate"
    /\ Cardinality(UserMatches) = 1
    /\ last.ok
    /\ last.err = Nil
    /\ ~last.user.nil
    /\ last.user.m["uid"] = "alice"
    /\ last.user.m["mail"] = "m1"
    /\ last.user.m["sn"] = ""

\* C3: Authenticate returns true only when exactly one entry matches; with no
\* match it returns false, a map of no members and "User does not exist"; with
\* several it returns false and "Too many entries returned" whatever the
\* password; in neither case is a bind with the supplied password sent.
C3_ZeroOrMany ==
    last.op = "Authenticate" =>
        /\ last.ok => Cardinality(UserMatches) = 1
        /\ (Searched /\ Cardinality(UserMatches) = 0) =>
            /\ ~last.ok
            /\ MapLen(last.user) = 0
            /\ last.err = "User does not exist"
            /\ UserBinds = {}
            /\ \A i \in ReqsOf("Bind") : last.reqs[i].pw # last.password
        /\ (Searched /\ Cardinality(UserMatches) > 1) =>
            /\ ~last.ok
            /\ last.err = "Too many entries returned"
            /\ UserBinds = {}
            /\ \A i \in ReqsOf("Bind") : last.reqs[i].pw # last.password

\* C3's case: two entries match and the password is that of both.
C3_Witness ==
    /\ last.op = "Authenticate"
    /\ Cardinality(UserMatches) = 2
    /\ \A i \in UserMatches : BindValid(dir, dir[i].DN, last.password)
    /\ last.err = "Too many entries returned"

\* C4: every connection the client dialed is the one it holds or is closed,
\* so at most one is open.
C4_AtMostOneLive ==
    /\ \A i \in 1..Len(conns) : conns[i].open => i = Conn
    /\ Cardinality({i \in 1..Len(conns) : conns[i].open}) <= 1

\* A failed dial or StartTLS in the last call.
ConnectFailed ==
    \E i \in 1..Len(last.reqs) :
        /\ last.reqs[i].kind \in {"Dial", "DialTLS", "StartTLS"}
        /\ ~last.reqs[i].ok

\* C5: the handle is absent or a connection that is open and, unless UseSSL or
\* SkipTLS is set, upgraded by StartTLS; when Connect fails in a call the
\* handle is absent, the call returns Connect's error, and it has sent nothing
\* after the step that failed.
C5_HandleAbsentOrEstablished ==
    /\ Conn # NoConn =>
        /\ Conn \in 1..Len(conns)
        /\ conns[Conn].open
        /\ cfg.UseSSL \/ cfg.SkipTLS \/ conns[Conn].tls
        /\ cfg.UseSSL => conns[Conn].tls
    /\ ConnectFailed =>
        /\ Conn = NoConn
        /\ ~last.held
        /\ last.err \in {"dial error", "starttls error"}
        /\ ~last.reqs[Len(last.reqs)].ok
        /\ \A i \in 1..Len(last.reqs) :
                last.reqs[i].kind \in {"Dial", "DialTLS", "StartTLS"}
        /\ ~last.ok /\ last.user.nil /\ last.result.nil

\* C5's case: a call on a client that must upgrade, whose StartTLS fails.
C5_Witness ==
    /\ last.op = "Authenticate"
    /\ last.err = "starttls error"
    /\ Len(conns) > 0
    /\ Conn = NoConn

\* C6: Close leaves the handle absent, the held connection closed and all else
\* as it was; with no connection held it changes nothing, so a second Close in
\* a row changes nothing; a call that finds the handle absent dials before it
\* sends anything else and holds, if any, a connection dialed in that call;
\* the held connection is never a closed one.
C6_CloseIdempotent ==
    [][/\ last'.op = "Close" =>
            /\ Conn' = NoConn
            /\ dir' = dir /\ cfg' = cfg
            /\ last'.err = Nil
            /\ Len(conns') = Len(conns)
            /\ \A i \in 1..Len(conns) :
                    IF i = Conn THEN ~conns'[i].open ELSE conns'[i] = conns[i]
            /\ Conn = NoConn => conns' = conns
            /\ last.op = "Close" => <<Conn', conns', dir'>> = <<Conn, conns, dir>>
       /\ (Conn = NoConn /\ last'.op # "Close") =>
            /\ last'.reqs # <<>> => last'.reqs[1].kind \in {"Dial", "DialTLS"}
            /\ Conn' # NoConn => Conn' > Len(conns)
       /\ Conn' # NoConn => conns'[Conn'].open
      ]_vars

\* C6's case: Close called twice in a row on a client that had connected.
C6_WitnessTwice ==
    /\ last.op = "Close"
    /\ last.again
    /\ ~last.held
    /\ \E i \in 1..Len(conns) : ~conns[i].open

ChangeOps ==
    {"ChangeAttribute", "ChangeMembers", "ChangeDescription", "ChangePassword"}

\* The attributes of an entry that are named name.
Named(entry, name) ==
    {j \in 1..Len(entry.Attributes) : entry.Attributes[j].Name = name}

\* C7: a Change call that returns no error leaves the named attribute of the
\* target entry with exactly the values supplied, whatever it held before, and
\* every other attribute of it and every other entry as they were.
C7_Replaces ==
    [][(last'.op \in ChangeOps /\ last'.err = Nil) =>
        /\ Len(dir') = Len(dir)
        /\ \A i \in 1..Len(dir) :
            /\ dir'[i].DN = dir[i].DN
            /\ dir[i].DN # last'.dn => dir'[i] = dir[i]
            /\ dir[i].DN = last'.dn =>
                /\ Cardinality(Named(dir'[i], last'.attribute)) <= 1
                /\ Flatten(Returned(dir'[i], <<last'.attribute>>)) = last'.values
                /\ \A name \in {dir[i].Attributes[j].Name : j \in 1..Len(dir[i].Attributes)}
                          \cup {dir'[i].Attributes[j].Name : j \in 1..Len(dir'[i].Attributes)} :
                        name # last'.attribute =>
                            Flatten(Returned(dir'[i], <<name>>))
                                = Flatten(Returned(dir[i], <<name>>))
        /\ \E i \in 1..Len(dir) : dir[i].DN = last'.dn
      ]_vars

\* C7's case: {"c"} written over the {"a", "b"} an earlier ChangeAttribute
\* wrote (the entry starts with other values), and only {"c"} is read back.
C7_Witness ==
    /\ last.op = "ChangeAttribute"
    /\ last.err = Nil
    /\ last.before = <<"a", "b">>
    /\ last.values = <<"c">>
    /\ ValuesOf(dir, last.dn, last.attribute) = <<"c">>

\* The values a search for the last call's filter and attributes finds, as
\* (entry, attribute, value) positions in the directory: of each matching
\* entry, of each attribute asked for (all of them when none is named).
Found ==
    UNION {UNION {{<<i, j, k>> : k \in 1..Len(dir[i].Attributes[j].Values)} :
                    j \in {n \in 1..Len(dir[i].Attributes) :
                            \/ last.attributes = <<>>
                            \/ dir[i].Attributes[n].Name
                                    \in SeqToSet(last.attributes)}} :
            i \in {n \in 1..Len(dir) : Matches(dir[n], last.filter)}}

Before(p, q) ==
    \/ p[1] < q[1]
    \/ p[1] = q[1] /\ p[2] < q[2]
    \/ p[1] = q[1] /\ p[2] = q[2] /\ p[3] < q[3]

\* C8: a Filter that returns no error returns every value found, each once,
\* in the directory's order of entries, then attributes, then values: as many
\* as the matched entries hold for the attributes asked for, and an empty,
\* non-nil sequence when no entry matches.
C8_Flattened ==
    (last.op \in {"Filter", "GetGroupsOfUser"} /\ last.err = Nil) =>
        /\ ~last.result.nil
        /\ Len(last.result.s) = Cardinality(Found)
        /\ \A p \in Found :
                last.result.s[Cardinality({q \in Found : Before(q, p)}) + 1]
                    = dir[p[1]].Attributes[p[2]].Values[p[3]]
        /\ (\A i \in 1..Len(dir) : ~Matches(dir[i], last.filter)) =>
                last.result.s = <<>>

\* C8's case: two entries match, one of them with an attribute of two values.
C8_Witness ==
    /\ last.op = "Filter"
    /\ last.err = Nil
    /\ Cardinality({p[1] : p \in Found}) = 2
    /\ \E p \in Found : p[3] = 2
    /\ Len(last.result.s) > 3

\* C9: Filter and GetGroupsOfUser send no bind: on a held connection the call
\* leaves the identity it found, and a connection the call dials is anonymous
\* after it.
C9_FilterNeverBinds ==
    [][last'.op \in {"Filter", "GetGroupsOfUser"} =>
        /\ \A i \in 1..Len(last'.reqs) : last'.reqs[i].kind # "Bind"
        /\ Conn # NoConn =>
            /\ Conn' = Conn
            /\ conns'[Conn].bound = conns[Conn].bound
        /\ (Conn = NoConn /\ Conn' # NoConn) =>
            conns'[Conn'].bound = Anonymous
      ]_vars

\* C9's case: service credentials the directory accepts are configured, and a
\* search has run on a held connection that was anonymous and is so after it.
C9_Witness ==
    /\ last.op \in {"Filter", "GetGroupsOfUser"}
    /\ last.err = Nil
    /\ Configured
    /\ BindValid(dir, cfg.BindDN, cfg.BindPassword)
    /\ last.held
    /\ conns[Conn].bound = Anonymous
    /\ Conn > 0

\* The step of a call a request belongs to: 1 dial, 2 StartTLS, 3 the service
\* bind, 4 the request, 5 the bind as the user, 6 the service rebind.
StepOf(i) ==
    LET r == last.reqs[i]
        after == \E j \in 1..(i - 1) : last.reqs[j].kind = "Search"
    IN  CASE r.kind \in {"Dial", "DialTLS"} -> 1
          [] r.kind = "StartTLS" -> 2
          [] r.kind = "Bind" /\ ~after -> 3
          [] r.kind \in {"Search", "Add", "Modify"} -> 4
          [] r.kind = "Bind" /\ i \in UserBinds -> 5
          [] OTHER -> 6

ErrorOf(kind) ==
    CASE kind \in {"Dial", "DialTLS"} -> "dial error"
      [] kind = "StartTLS" -> "starttls error"
      [] kind = "Bind" -> "bind error"
      [] kind = "Search" -> "search error"
      [] OTHER -> "write error"

\* The request each method is for.
RequestOf(op) ==
    CASE op \in {"Authenticate", "Filter", "GetGroupsOfUser"} -> "Search"
      [] op \in {"AddUser", "AddUserAccount"} -> "Add"
      [] op \in ChangeOps -> "Modify"
      [] OTHER -> "none"

\* C10: the requests of a call are sent in the order of its steps, each step
\* at most once; every request before the last succeeded; a failed request is
\* the last and its error is the call's; the request of a method that binds
\* follows a successful service bind when one is configured; and an error
\* comes with a positive result only when Authenticate returns true with the
\* error of the service rebind.
C10_FirstFailureEnds ==
    LET n == Len(last.reqs)
    IN  /\ \A i \in 1..n, j \in 1..n : i < j => StepOf(i) < StepOf(j)
        /\ \A i \in 1..n : StepOf(i) \in {3, 6} =>
                last.reqs[i].dn = cfg.BindDN /\ Configured
        /\ \A i \in 1..n : i < n => last.reqs[i].ok
        /\ \A i \in 1..n : ~last.reqs[i].ok =>
                i = n /\ last.err = ErrorOf(last.reqs[i].kind)
        /\ \A i \in 1..n : StepOf(i) = 4 =>
                /\ last.reqs[i].kind = RequestOf(last.op)
                /\ (Configured /\ last.op \notin {"Filter", "GetGroupsOfUser"}) =>
                        \E j \in 1..(i - 1) : StepOf(j) = 3 /\ last.reqs[j].ok
                /\ Conn # NoConn
        /\ (last.err = Nil /\ last.op \notin {"new", "Connect", "Close"}) =>
                \E i \in 1..n : StepOf(i) = 4
        /\ last.err # Nil =>
                /\ last.result.nil
                /\ last.ok =>
                    /\ last.op = "Authenticate"
                    /\ n > 1
                    /\ StepOf(n) = 6 /\ ~last.reqs[n].ok
                    /\ StepOf(n - 1) = 5 /\ last.reqs[n - 1].ok

\* C10's case: Authenticate has returned true together with the error of the
\* service rebind that failed after the user's bind.
C10_Witness ==
    /\ last.op = "Authenticate"
    /\ last.ok
    /\ last.err = "bind error"
    /\ ~last.reqs[Len(last.reqs)].ok

====
